---- MODULE Spec2Model ----
(***************************************************************************)
(* Model of the LogViewer dashboard controller (chiragx16/Bot-Dash).       *)
(*                                                                         *)
(* Two variants of one class exist: the network-calling variant            *)
(* (src/unnamed/part_000) and the local-simulation variant (src/script.js).*)
(* The variable `variant` selects which one a behaviour runs.              *)
(*                                                                         *)
(* Every method of the class is an operator from a state record to a state *)
(* record, named as in the source; every event listener, timer callback    *)
(* and promise settlement is one action which applies the handler to the   *)
(* current state.                                                          *)
(***************************************************************************)
EXTENDS Integers, Sequences, FiniteSets, TLC

\* ----------------------------------------------------------------- bounds
\* most DOM children kept under #logContent
MaxLogLines == 2
\* most bot-trigger requests in flight
MaxBotCalls == 2
\* most log requests in flight
MaxLogCalls == 2
\* most interval timers alive
MaxTimers == 3

\* -------------------------------------------------------------- variables
VARIABLES
    variant,              \* "network" (part_000) or "local" (script.js)
    isLoading,            \* this.isLoading
    isBotRunning,         \* this.isBotRunning
    scheduledTask,        \* this.scheduledTask: timer id, 0 for null
    autoRefreshInterval,  \* this.autoRefreshInterval: timer id, 0 for null
    timers,               \* live setInterval timers: [id, kind, ms]
    logPending,           \* loadLogs invocations suspended in their try block
    botPending,           \* startBot invocations suspended in their try block
    startBotBtn,          \* startBotBtn.disabled
    stopBotBtn,           \* stopBotBtn.disabled
    schedDisabled,        \* <<scheduleEnabled, scheduleInterval, scheduleUnit>>.disabled
    scheduleEnabled,      \* scheduleEnabled.checked
    scheduleInterval,     \* scheduleInterval.value, a sequence of characters
    scheduleUnit,         \* scheduleUnit.value
    autoRefreshCheckbox,  \* autoRefreshCheckbox.checked
    hidden,               \* document.hidden
    status,               \* statusElement: <<text, type>>
    errorMessage,         \* errorMessage: [shown, text]
    toast,                \* the last toast pushed by showToast: <<text, type>>
    logContent,           \* children of #logContent, first child first
    totalLines,           \* totalLinesElement.textContent
    scrollTop,            \* logContent.scrollTop
    uncaught,             \* the last handler ended with an uncaught exception
    lastOp,               \* the handler that ran last
    pre,                  \* <<isLoading, isBotRunning>> when that handler was entered
    lastIn,               \* what the network gave that handler: [outcome, body, text]
    probe                 \* a method called on its own: its name, argument and result

vars == <<variant, isLoading, isBotRunning, scheduledTask, autoRefreshInterval,
          timers, logPending, botPending,
          startBotBtn, stopBotBtn, schedDisabled, scheduleEnabled,
          scheduleInterval, scheduleUnit, autoRefreshCheckbox, hidden,
          status, errorMessage, toast, logContent, totalLines, scrollTop,
          uncaught, lastOp, pre, lastIn, probe>>

\* the state of the program, without the history variables lastOp, pre, lastIn
progVars == <<variant, isLoading, isBotRunning, scheduledTask, autoRefreshInterval,
              timers, logPending, botPending,
              startBotBtn, stopBotBtn, schedDisabled, scheduleEnabled,
              scheduleInterval, scheduleUnit, autoRefreshCheckbox, hidden,
              status, errorMessage, toast, logContent, totalLines, scrollTop,
              uncaught>>

\* ----------------------------------------------------- characters, strings
LF == "\n"
Whitespace == {" ", LF, "\t", "\r"}
DigitChars == <<"0", "1", "2", "3", "4", "5", "6", "7", "8", "9">>

IsDigit(c) == \E i \in 1..10 : DigitChars[i] = c
DigitVal(c) == (CHOOSE i \in 1..10 : DigitChars[i] = c) - 1

\* String.prototype.trim() applied to a sequence of characters gives "" ?
IsBlank(line) == \A i \in 1..Len(line) : line[i] \in Whitespace

RECURSIVE SkipWs(_)
SkipWs(str) ==
    IF str # <<>> /\ Head(str) \in Whitespace THEN SkipWs(Tail(str)) ELSE str

RECURSIVE DigitsValue(_, _, _)
\* the value of the longest prefix of digits; nan when there is none
DigitsValue(str, acc, seen) ==
    IF str # <<>> /\ IsDigit(Head(str))
    THEN DigitsValue(Tail(str), acc * 10 + DigitVal(Head(str)), TRUE)
    ELSE [nan |-> ~seen, val |-> acc]

\* parseInt(str): leading white space, an optional sign, decimal digits
parseInt(str) ==
    LET s0 == SkipWs(str)
        neg == s0 # <<>> /\ Head(s0) = "-"
        s1 == IF s0 # <<>> /\ Head(s0) \in {"-", "+"} THEN Tail(s0) ELSE s0
        d == DigitsValue(s1, 0, FALSE)
    IN  IF d.nan THEN d ELSE [nan |-> FALSE, val |-> IF neg THEN 0 - d.val ELSE d.val]

\* x || dflt for a number x: NaN and 0 are falsy
OrDefault(x, dflt) == IF x.nan \/ x.val = 0 THEN dflt ELSE x.val

\* cur followed by text, split at every line feed: text.split('\n') for cur = <<>>
SplitLines(text, cur) ==
    LET all == cur \o text
        breaks == {i \in 1..Len(all) : all[i] = LF}
        n == Cardinality(breaks)
        \* the position of the j-th line feed; 0 before the first, Len + 1 after the last
        brk(j) == IF j = 0 THEN 0
                  ELSE IF j = n + 1 THEN Len(all) + 1
                  ELSE CHOOSE i \in breaks : Cardinality({k \in breaks : k < i}) = j - 1
    IN  [j \in 1..(n + 1) |-> SubSeq(all, brk(j - 1) + 1, brk(j) - 1)]

RECURSIVE FilterNonBlank(_)
\* .filter(line => line.trim())
FilterNonBlank(lines) ==
    IF lines = <<>> THEN <<>>
    ELSE IF IsBlank(Head(lines)) THEN FilterNonBlank(Tail(lines))
    ELSE <<Head(lines)>> \o FilterNonBlank(Tail(lines))

\* .reverse()
Reverse(seq) == [i \in 1..Len(seq) |-> seq[Len(seq) + 1 - i]]

UpperChars == <<"A", "B", "C", "D", "E", "F", "G", "H", "I", "J", "K", "L", "M",
                "N", "O", "P", "Q", "R", "S", "T", "U", "V", "W", "X", "Y", "Z">>
LowerChars == <<"a", "b", "c", "d", "e", "f", "g", "h", "i", "j", "k", "l", "m",
                "n", "o", "p", "q", "r", "s", "t", "u", "v", "w", "x", "y", "z">>

\* str.toLowerCase()
toLowerCase(str) ==
    [i \in 1..Len(str) |->
        IF \E k \in 1..26 : UpperChars[k] = str[i]
        THEN LowerChars[CHOOSE k \in 1..26 : UpperChars[k] = str[i]]
        ELSE str[i]]

\* str.indexOf(sub) + 1: the position of the first occurrence, 0 for none
indexOf(str, sub) ==
    LET at == {i \in 1..(Len(str) - Len(sub) + 1) : SubSeq(str, i, i + Len(sub) - 1) = sub}
    IN  IF at = {} THEN 0 ELSE CHOOSE i \in at : \A j \in at : i <= j

\* str.includes(sub)
includes(str, sub) == indexOf(str, sub) # 0

\* str.replace(sub, ''): the first occurrence of the string sub is removed
replaceFirst(str, sub) ==
    LET i == indexOf(str, sub)
    IN  IF i = 0 THEN str
        ELSE SubSeq(str, 1, i - 1) \o SubSeq(str, i + Len(sub), Len(str))

\* str.trim()
trim(str) ==
    LET keep == {i \in 1..Len(str) : str[i] \notin Whitespace}
    IN  IF keep = {} THEN <<>>
        ELSE SubSeq(str, CHOOSE i \in keep : \A j \in keep : i <= j,
                         CHOOSE i \in keep : \A j \in keep : i >= j)

RECURSIVE escapeHtml(_)
\* escapeHtml(text): the serialisation of a text node
escapeHtml(text) ==
    IF text = <<>> THEN <<>>
    ELSE (IF Head(text) = "&" THEN <<"&", "a", "m", "p", ";">>
          ELSE IF Head(text) = "<" THEN <<"&", "l", "t", ";">>
          ELSE IF Head(text) = ">" THEN <<"&", "g", "t", ";">>
          ELSE <<Head(text)>>) \o escapeHtml(Tail(text))

RECURSIVE Join(_, _)
\* parts.join(sep)
Join(parts, sep) ==
    IF parts = <<>> THEN <<>>
    ELSE IF Len(parts) = 1 THEN parts[1]
    ELSE parts[1] \o sep \o Join(Tail(parts), sep)

\* the sequences of at most n members of S
SeqsUpTo(S, n) == UNION {[1..k -> S] : k \in 0..n}

\* ------------------------------------------------------ regular expressions
\* a pattern is a sequence of tokens: "\\d", "\\s" or a literal character
Digits(n) == [i \in 1..n |-> "\\d"]

TokenMatches(tok, c) ==
    IF tok = "\\d" THEN IsDigit(c)
    ELSE IF tok = "\\s" THEN c \in Whitespace
    ELSE c = tok

\* the pattern matches the line at position i
MatchesAt(pattern, line, i) ==
    /\ i + Len(pattern) - 1 <= Len(line)
    /\ \A k \in 1..Len(pattern) : TokenMatches(pattern[k], line[i + k - 1])

\* line.match(pattern): the position of the leftmost match, 0 for null
match(line, pattern) ==
    LET at == {i \in 1..Len(line) : MatchesAt(pattern, line, i)}
    IN  IF at = {} THEN 0 ELSE CHOOSE i \in at : \A j \in at : i <= j

\* HH:MM:SS
ClockPattern == Digits(2) \o <<":">> \o Digits(2) \o <<":">> \o Digits(2)
\* YYYY-MM-DD HH:MM:SS
DatedPattern == Digits(4) \o <<"-">> \o Digits(2) \o <<"-">> \o Digits(2) \o <<"\\s">> \o ClockPattern
\* DD/MM/YYYY HH:MM:SS
SlashPattern == Digits(2) \o <<"/">> \o Digits(2) \o <<"/">> \o Digits(4) \o <<"\\s">> \o ClockPattern
\* [YYYY-MM-DD HH:MM:SS]
BracketPattern == <<"[">> \o DatedPattern \o <<"]">>

\* the patterns of extractTimestamp, in the order it tries them
patterns == <<DatedPattern, SlashPattern, ClockPattern, BracketPattern>>

\* ---------------------------------------------------- rendering of one line
\* the keywords of getLogClass, by category
KwError ==
    {<<"e", "r", "r", "o", "r">>, <<"e", "x", "c", "e", "p", "t", "i", "o", "n">>,
     <<"f", "a", "i", "l", "e", "d">>}
KwWarning == {<<"w", "a", "r", "n", "i", "n", "g">>, <<"w", "a", "r", "n">>}
KwSuccess ==
    {<<"s", "u", "c", "c", "e", "s", "s">>, <<"c", "o", "m", "p", "l", "e", "t", "e", "d">>,
     <<"o", "k">>}
KwInfo == {<<"i", "n", "f", "o">>, <<"d", "e", "b", "u", "g">>}

\* the line contains one of the keywords
includesAny(str, keywords) == \E kw \in keywords : includes(str, kw)

\* getLogClass with the warning test before the error test
getLogClass_warningFirst(line) ==
    LET lowerLine == toLowerCase(line)
    IN  IF includesAny(lowerLine, KwWarning) THEN "warning"
        ELSE IF includesAny(lowerLine, KwError) THEN "error"
        ELSE IF includesAny(lowerLine, KwSuccess) THEN "success"
        ELSE IF includesAny(lowerLine, KwInfo) THEN "info"
        ELSE ""

getLogClass(line) ==
    LET lowerLine == toLowerCase(line)
    IN  IF includesAny(lowerLine, KwError) THEN "error"
        ELSE IF includesAny(lowerLine, KwWarning) THEN "warning"
        ELSE IF includesAny(lowerLine, KwSuccess) THEN "success"
        ELSE IF includesAny(lowerLine, KwInfo) THEN "info"
        ELSE ""

\* the index of the first pattern that matches the line, 0 for none
MatchingPattern(line) ==
    LET hits == {k \in 1..Len(patterns) : match(line, patterns[k]) # 0}
    IN  IF hits = {} THEN 0 ELSE CHOOSE k \in hits : \A j \in hits : k <= j

\* extractTimestamp trying the bracketed pattern first
extractTimestamp_bracketFirst(line) ==
    IF match(line, BracketPattern) # 0
    THEN SubSeq(line, match(line, BracketPattern),
                      match(line, BracketPattern) + Len(BracketPattern) - 1)
    ELSE LET k == MatchingPattern(line)
         IN  IF k = 0 THEN <<>>
             ELSE SubSeq(line, match(line, patterns[k]),
                               match(line, patterns[k]) + Len(patterns[k]) - 1)

\* extractTimestamp(line): the text of the match, <<>> for null
extractTimestamp(line) ==
    LET k == MatchingPattern(line)
    IN  IF k = 0 THEN <<>>
        ELSE SubSeq(line, match(line, patterns[k]),
                          match(line, patterns[k]) + Len(patterns[k]) - 1)

formatLogContent(line) ==
    LET timestamp == extractTimestamp(line)
    IN  escapeHtml(IF timestamp # <<>> THEN trim(replaceFirst(line, timestamp)) ELSE line)

\* ------------------------------------------------------------- input sets
\* what the user can type into the interval field
IntervalValues == {<<"0">>, <<"1">>, <<"-", "1">>, <<>>}
\* the options of the unit selector
Units == {"seconds", "minutes", "hours"}
\* bodies of /logs.txt
LogTextsIn == {<<>>, <<" ", LF>>, <<"a", LF>>, <<"a", LF, LF, "b">>}
\* bodies of /process-pdfs: {message}, {}, {error}, null, not JSON
BotBodies == {"message", "empty", "error", "null", "unparsable"}

\* --------------------------------------------------------------- DOM nodes
\* a node has a class, a category, the data-line attribute (0 when it has
\* none), the text of its timestamp span (<<>> when it has none) and its
\* content: msg for a fixed message, body for the text of a log line
Placeholder(which) ==
    [cls |-> "loading", type |-> "", index |-> 0, ts |-> <<>>, msg |-> which, body |-> <<>>]
\* new Date().toLocaleTimeString(): the clock is not modelled
LocaleTime == <<"n", "o", "w">>
\* a node made by addLogEntry
Entry(message, type) ==
    [cls |-> "log-line", type |-> type, index |-> 0, ts |-> LocaleTime, msg |-> message,
     body |-> <<>>]
\* a node rendered by displayLogs from one line of the log
LineNode(line, index) ==
    [cls |-> "log-line", type |-> getLogClass(line), index |-> index,
     ts |-> extractTimestamp(line), msg |-> "", body |-> formatLogContent(line)]

\* logContent.querySelectorAll('.log-line').length
CountLogLines(nodes) == Cardinality({i \in 1..Len(nodes) : nodes[i].cls = "log-line"})

\* ------------------------------------------------------------------ layout
\* the height of one child of #logContent, and the height of its viewport,
\* in the same unit; the viewport is lower than one child, so that one child
\* already makes the area scrollable
LineHeight == 2
ClientHeight == 1

\* logContent.scrollHeight
scrollHeight(nodes) ==
    IF Len(nodes) * LineHeight > ClientHeight THEN Len(nodes) * LineHeight ELSE ClientHeight

\* the largest scroll offset the browser allows
MaxScrollTop(nodes) == scrollHeight(nodes) - ClientHeight

\* logContent.scrollTop = y: the browser clamps the offset to what can scroll
setScrollTop(s, y) ==
    [s EXCEPT !.scrollTop = IF y < 0 THEN 0
                            ELSE IF y > MaxScrollTop(s.logContent) THEN MaxScrollTop(s.logContent)
                            ELSE y]

\* logContent.innerHTML = ...: the children are replaced and the browser
\* keeps the offset, clamped to the new content
setInnerHTML(s, nodes) == setScrollTop([s EXCEPT !.logContent = nodes], s.scrollTop)

\* ---------------------------------------------------- the state as a record
Cur == [variant |-> variant, isLoading |-> isLoading, isBotRunning |-> isBotRunning,
        scheduledTask |-> scheduledTask, autoRefreshInterval |-> autoRefreshInterval,
        timers |-> timers, logPending |-> logPending, botPending |-> botPending,
        startBotBtn |-> startBotBtn, stopBotBtn |-> stopBotBtn,
        schedDisabled |-> schedDisabled, scheduleEnabled |-> scheduleEnabled,
        scheduleInterval |-> scheduleInterval, scheduleUnit |-> scheduleUnit,
        autoRefreshCheckbox |-> autoRefreshCheckbox, hidden |-> hidden,
        status |-> status, errorMessage |-> errorMessage, toast |-> toast,
        logContent |-> logContent, totalLines |-> totalLines,
        scrollTop |-> scrollTop, threw |-> FALSE]

\* the bounds of the model: a step that would exceed one is not taken
WithinBounds(s) ==
    /\ Len(s.logContent) <= MaxLogLines
    /\ s.botPending <= MaxBotCalls
    /\ s.logPending <= MaxLogCalls
    /\ Cardinality(s.timers) <= MaxTimers

\* no method was called on its own
NoProbe == [fn |-> "", line |-> <<>>, class |-> "", ts |-> <<>>, body |-> <<>>, nodes |-> <<>>]

\* a handler that was given nothing by the network
NoInput == [outcome |-> "", body |-> "", text |-> <<>>]

\* the handler `op` ran on the input `in` and left the state s
ApplyIn(s, op, in) ==
    /\ WithinBounds(s)
    /\ variant' = s.variant
    /\ isLoading' = s.isLoading
    /\ isBotRunning' = s.isBotRunning
    /\ scheduledTask' = s.scheduledTask
    /\ autoRefreshInterval' = s.autoRefreshInterval
    /\ timers' = s.timers
    /\ logPending' = s.logPending
    /\ botPending' = s.botPending
    /\ startBotBtn' = s.startBotBtn
    /\ stopBotBtn' = s.stopBotBtn
    /\ schedDisabled' = s.schedDisabled
    /\ scheduleEnabled' = s.scheduleEnabled
    /\ scheduleInterval' = s.scheduleInterval
    /\ scheduleUnit' = s.scheduleUnit
    /\ autoRefreshCheckbox' = s.autoRefreshCheckbox
    /\ hidden' = s.hidden
    /\ status' = s.status
    /\ errorMessage' = s.errorMessage
    /\ toast' = s.toast
    /\ logContent' = s.logContent
    /\ totalLines' = s.totalLines
    /\ scrollTop' = s.scrollTop
    /\ uncaught' = s.threw
    /\ lastOp' = op
    /\ pre' = <<isLoading, isBotRunning>>
    /\ lastIn' = in
    /\ probe' = probe

\* the handler `op` ran and left the state s
Apply(s, op) == ApplyIn(s, op, NoInput)

\* ------------------------------------------------------------------ sinks
setStatus(s, text, type) == [s EXCEPT !.status = <<text, type>>]

showError(s, message) == [s EXCEPT !.errorMessage = [shown |-> TRUE, text |-> message]]

hideError(s) == [s EXCEPT !.errorMessage.shown = FALSE]

showToast(s, message, type) == [s EXCEPT !.toast = <<message, type>>]

\* addLogEntry leaving the counter as it was
addLogEntry_noCount(s, message, type) ==
    [s EXCEPT !.logContent = <<Entry(message, type)>> \o s.logContent]

addLogEntry(s, message, type) ==
    LET nodes == <<Entry(message, type)>> \o s.logContent
    IN  [s EXCEPT !.logContent = nodes, !.totalLines = CountLogLines(nodes)]


\* ------------------------------------------------- facts about the page
\* this.scheduleBtn is never assigned by the constructor: it is undefined,
\* and a write to this.scheduleBtn.disabled throws a TypeError
scheduleBtnDefined == FALSE
\* window.logViewer is never assigned: DOMContentLoaded discards the object
windowLogViewer == FALSE

\* ----------------------------------------------------------------- timers
\* the handle setInterval returns: a positive id not in use
NewTimerId(s) ==
    CHOOSE i \in 1..(MaxTimers + 1) :
        /\ \A t \in s.timers : t.id # i
        /\ \A j \in 1..(i - 1) : \E t \in s.timers : t.id = j

clearInterval(s, id) == [s EXCEPT !.timers = {t \in @ : t.id # id}]

\* ------------------------------------------------------------ log loading
\* loadLogs without its re-entrancy guard
loadLogs_noGuard(s) ==
    LET s1 == [s EXCEPT !.isLoading = TRUE]
        s2 == IF s.variant = "local" THEN setStatus(s1, "Loading...", "loading") ELSE s1
        s3 == hideError(s2)
    IN  [s3 EXCEPT !.logPending = @ + 1]

loadLogs(s) ==
    IF s.isLoading THEN s
    ELSE LET s1 == [s EXCEPT !.isLoading = TRUE]
             s2 == IF s.variant = "local" THEN setStatus(s1, "Loading...", "loading") ELSE s1
             s3 == hideError(s2)
         IN  [s3 EXCEPT !.logPending = @ + 1]

\* the rendering of displayLogs without the reversal of the lines
displayLogs_render_noReverse(s, logText) ==
    LET wasScrolledToTop == s.scrollTop = 0
        previousScrollHeight == scrollHeight(s.logContent)
        lines == FilterNonBlank(SplitLines(logText, <<>>))
        s1 == setInnerHTML(s, [i \in 1..Len(lines) |-> LineNode(lines[i], i)])
        s2 == setScrollTop(s1, 0)
        scrollDifference == scrollHeight(s2.logContent) - previousScrollHeight
    IN  IF ~wasScrolledToTop /\ scrollDifference > 0
        THEN setScrollTop(s2, scrollDifference)
        ELSE s2

\* the part of displayLogs that renders the lines and places the scroll offset
displayLogs_render(s, logText) ==
    LET wasScrolledToTop == s.scrollTop = 0
        previousScrollHeight == scrollHeight(s.logContent)
        lines == Reverse(FilterNonBlank(SplitLines(logText, <<>>)))
        s1 == setInnerHTML(s, [i \in 1..Len(lines) |-> LineNode(lines[i], i)])
        s2 == setScrollTop(s1, 0)
        scrollDifference == scrollHeight(s2.logContent) - previousScrollHeight
    IN  IF ~wasScrolledToTop /\ scrollDifference > 0
        THEN setScrollTop(s2, scrollDifference)
        ELSE s2

\* displayLogs without its branch for a blank text
displayLogs_noBlankCheck(s, logText) == displayLogs_render(s, logText)

displayLogs(s, logText) ==
    IF IsBlank(logText)
    THEN setInnerHTML(s, <<Placeholder("No logs found or logs.txt is empty")>>)
    ELSE displayLogs_render(s, logText)

\* updateStats testing the schedule before the bot
updateStats_scheduledFirst(s, logText) ==
    LET lines == FilterNonBlank(SplitLines(logText, <<>>))
        s1 == [s EXCEPT !.totalLines = Len(lines)]
    IN  IF s1.scheduledTask # 0 THEN setStatus(s1, "Scheduled", "info")
        ELSE IF s1.isBotRunning THEN setStatus(s1, "Running", "info")
        ELSE setStatus(s1, "Connected", "success")

updateStats(s, logText) ==
    LET lines == FilterNonBlank(SplitLines(logText, <<>>))
        s1 == [s EXCEPT !.totalLines = Len(lines)]
    IN  IF s.variant = "network"
        THEN IF s1.isBotRunning THEN setStatus(s1, "Running", "info")
             ELSE IF s1.scheduledTask # 0 THEN setStatus(s1, "Scheduled", "info")
             ELSE setStatus(s1, "Connected", "success")
        ELSE IF s1.isBotRunning THEN setStatus(s1, "Bot Running", "success")
             ELSE IF s1.scheduledTask # 0 THEN setStatus(s1, "Scheduled", "info")
             ELSE setStatus(s1, "Bot Stopped", "error")

\* the catch block of loadLogs
loadLogs_catch(s, message) ==
    LET s1 == showError(s, message)
    IN  IF s.variant = "local" THEN setStatus(s1, "Error", "error") ELSE s1

\* the finally block of loadLogs
loadLogs_finally(s) == [s EXCEPT !.isLoading = FALSE]

\* loadLogs clearing its flag at the end of the try block, not in a finally
loadLogs_resume_noFinally(s, outcome, logText) ==
    LET s1 == [s EXCEPT !.logPending = @ - 1]
    IN  IF outcome = "reject"
        THEN loadLogs_catch(s1, "Error loading logs: fetch rejected")
        ELSE IF outcome = "status"
        THEN loadLogs_catch(s1, "Error loading logs: Failed to load logs: status")
        ELSE IF outcome = "body"
        THEN loadLogs_catch(s1, "Error loading logs: body rejected")
        ELSE LET s2 == updateStats(displayLogs(s1, logText), logText)
             IN  loadLogs_finally(
                    IF s.variant = "local" THEN setStatus(s2, "Connected", "success") ELSE s2)

\* loadLogs resumed from its suspension.  Its two awaits, fetch() and
\* response.text(), are one suspension: the code changes nothing between
\* them.  outcome is "reject" (fetch rejected), "status" (non-2xx),
\* "body" (text() rejected) or "ok" (text() gave logText)
loadLogs_resume(s, outcome, logText) ==
    LET s1 == [s EXCEPT !.logPending = @ - 1]
    IN  IF outcome = "reject"
        THEN loadLogs_finally(loadLogs_catch(s1, "Error loading logs: fetch rejected"))
        ELSE IF outcome = "status"
        THEN loadLogs_finally(loadLogs_catch(s1, "Error loading logs: Failed to load logs: status"))
        ELSE IF outcome = "body"
        THEN loadLogs_finally(loadLogs_catch(s1, "Error loading logs: body rejected"))
        ELSE LET s2 == updateStats(displayLogs(s1, logText), logText)
             IN  loadLogs_finally(
                    IF s.variant = "local" THEN setStatus(s2, "Connected", "success") ELSE s2)

clearLogs(s) ==
    LET s1 == [setInnerHTML(s, <<Placeholder("Logs cleared")>>) EXCEPT !.totalLines = 0]
    IN  hideError(setStatus(s1, "Cleared", "info"))

stopAutoRefresh(s) ==
    IF s.autoRefreshInterval # 0
    THEN [clearInterval(s, s.autoRefreshInterval) EXCEPT !.autoRefreshInterval = 0]
    ELSE s

\* startAutoRefresh without the cancellation of the live timer
startAutoRefresh_noStop(s) ==
    LET id == NewTimerId(s)
        s2 == [s EXCEPT !.timers = @ \cup {[id |-> id, kind |-> "poll", ms |-> 5000]},
                        !.autoRefreshInterval = id]
    IN  loadLogs(s2)

startAutoRefresh(s) ==
    LET s1 == stopAutoRefresh(s)
        id == NewTimerId(s1)
        s2 == [s1 EXCEPT !.timers = @ \cup {[id |-> id, kind |-> "poll", ms |-> 5000]},
                         !.autoRefreshInterval = id]
    IN  loadLogs(s2)

\* ------------------------------------------------------------ bot control
clearScheduledTask(s) ==
    IF s.scheduledTask # 0
    THEN [clearInterval(s, s.scheduledTask) EXCEPT !.scheduledTask = 0]
    ELSE s

\* startBot without its guard against a running bot
startBot_noGuard(s) ==
    LET s1 == [s EXCEPT !.isBotRunning = TRUE, !.startBotBtn = TRUE, !.stopBotBtn = FALSE,
                        !.schedDisabled = <<TRUE, TRUE, TRUE>>]
    IN  IF s.variant = "network"
        THEN [setStatus(s1, "Running", "info") EXCEPT !.botPending = @ + 1]
        ELSE [s1 EXCEPT !.threw = TRUE]

\* startBot up to its first suspension point (network) or to its end (local)
startBot(s) ==
    IF s.isBotRunning THEN s
    ELSE LET s1 == [s EXCEPT !.isBotRunning = TRUE, !.startBotBtn = TRUE, !.stopBotBtn = FALSE,
                             !.schedDisabled = <<TRUE, TRUE, TRUE>>]
         IN  IF s.variant = "network"
             THEN [setStatus(s1, "Running", "info") EXCEPT !.botPending = @ + 1]
             ELSE IF ~scheduleBtnDefined THEN [s1 EXCEPT !.threw = TRUE]
             ELSE LET s2 == setStatus(addLogEntry(s1, "Bot started successfully", "success"),
                                      "Bot Running", "success")
                  IN  IF s2.autoRefreshInterval = 0
                      THEN startAutoRefresh([s2 EXCEPT !.autoRefreshCheckbox = TRUE])
                      ELSE s2

\* the catch block of startBot; message is error.message, which the toast
\* shows after 'Error: ' and the log entry after 'Error starting bot: '
startBot_catch(s, message) ==
    addLogEntry(showToast(setStatus(s, "Error", "error"), message, "error"),
                message, "error")

\* error.message of the error thrown for a non-2xx response with this body
StatusErrorMessage(body) ==
    IF body = "error" THEN "result.error" ELSE "Failed to start bot"

\* the finally block of startBot
startBot_finally(s) ==
    [s EXCEPT !.isBotRunning = FALSE, !.startBotBtn = FALSE, !.stopBotBtn = TRUE,
              !.schedDisabled = <<FALSE, FALSE, FALSE>>]

\* startBot taking a 2xx response without a message for a failure
startBot_resume_messageRequired(s, outcome, body) ==
    LET s1 == [s EXCEPT !.botPending = @ - 1]
    IN  IF outcome = "reject" THEN startBot_finally(startBot_catch(s1, "fetch rejected"))
        ELSE IF body = "unparsable" THEN startBot_finally(startBot_catch(s1, "SyntaxError"))
        ELSE IF body = "null" THEN startBot_finally(startBot_catch(s1, "TypeError"))
        ELSE IF outcome = "ok" /\ body = "message"
        THEN startBot_finally(setStatus(showToast(s1, "result.message", "success"),
                                        "Completed", "success"))
        ELSE startBot_finally(startBot_catch(s1, StatusErrorMessage(body)))

\* startBot restoring the controls at the end of the try block, not in a finally
startBot_resume_noFinally(s, outcome, body) ==
    LET s1 == [s EXCEPT !.botPending = @ - 1]
    IN  IF outcome = "reject" THEN startBot_catch(s1, "fetch rejected")
        ELSE IF body = "unparsable" THEN startBot_catch(s1, "SyntaxError")
        ELSE IF body = "null" THEN startBot_catch(s1, "TypeError")
        ELSE IF outcome = "ok"
        THEN LET msg == IF body = "message" THEN "result.message"
                        ELSE "PDF processing started successfully"
             IN  startBot_finally(setStatus(showToast(s1, msg, "success"), "Completed", "success"))
        ELSE startBot_catch(s1, StatusErrorMessage(body))

\* startBot resumed from its suspension.  Its two awaits, fetch() and
\* response.json(), are one suspension: the code changes nothing between
\* them.  outcome is "reject" (fetch rejected), "ok" (2xx) or "status"
\* (non-2xx); body is what response.json() gives
startBot_resume(s, outcome, body) ==
    LET s1 == [s EXCEPT !.botPending = @ - 1]
    IN  IF outcome = "reject" THEN startBot_finally(startBot_catch(s1, "fetch rejected"))
        \* response.json() rejects
        ELSE IF body = "unparsable" THEN startBot_finally(startBot_catch(s1, "SyntaxError"))
        \* result.message, result.error of null: TypeError
        ELSE IF body = "null" THEN startBot_finally(startBot_catch(s1, "TypeError"))
        ELSE IF outcome = "ok"
        \* const msg = result.message || 'PDF processing started successfully'
        THEN LET msg == IF body = "message" THEN "result.message"
                        ELSE "PDF processing started successfully"
             IN  startBot_finally(setStatus(showToast(s1, msg, "success"), "Completed", "success"))
        \* throw new Error(result.error || 'Failed to start bot')
        ELSE startBot_finally(startBot_catch(s1, StatusErrorMessage(body)))

\* stopBot leaving the schedule controls disabled
stopBot_keepScheduleDisabled(s) ==
    IF ~s.isBotRunning THEN s
    ELSE LET s1 == [s EXCEPT !.isBotRunning = FALSE, !.startBotBtn = FALSE, !.stopBotBtn = TRUE]
         IN  IF ~scheduleBtnDefined THEN [s1 EXCEPT !.threw = TRUE]
             ELSE setStatus(addLogEntry(clearScheduledTask(s1), "Bot stopped", "info"),
                            "Bot Stopped", "error")

stopBot(s) ==
    IF ~s.isBotRunning THEN s
    ELSE LET s1 == [s EXCEPT !.isBotRunning = FALSE, !.startBotBtn = FALSE, !.stopBotBtn = TRUE,
                             !.schedDisabled = <<FALSE, FALSE, FALSE>>]
         IN  IF ~scheduleBtnDefined THEN [s1 EXCEPT !.threw = TRUE]
             ELSE setStatus(addLogEntry(clearScheduledTask(s1), "Bot stopped", "info"),
                            "Bot Stopped", "error")

\* ------------------------------------------------------------- scheduling
\* scheduleBot without the immediate start of the bot
scheduleBot_noImmediate(s, intervalMs) ==
    LET s1 == clearScheduledTask(s)
        id == NewTimerId(s1)
    IN  [s1 EXCEPT !.timers = @ \cup {[id |-> id, kind |-> "sched", ms |-> intervalMs]},
                   !.scheduledTask = id]

\* scheduleBot without the cancellation of the prior timer
scheduleBot_noClear(s, intervalMs) ==
    LET id == NewTimerId(s)
        s2 == [s EXCEPT !.timers = @ \cup {[id |-> id, kind |-> "sched", ms |-> intervalMs]},
                        !.scheduledTask = id]
    IN  IF ~s2.isBotRunning THEN startBot(s2) ELSE s2

scheduleBot(s, intervalMs) ==
    LET s1 == clearScheduledTask(s)
        id == NewTimerId(s1)
        s2 == [s1 EXCEPT !.timers = @ \cup {[id |-> id, kind |-> "sched", ms |-> intervalMs]},
                         !.scheduledTask = id]
    IN  IF ~s2.isBotRunning THEN startBot(s2) ELSE s2

\* interval * unit in milliseconds
Milliseconds(interval, unit) ==
    IF unit = "hours" THEN interval * 60 * 60 * 1000
    ELSE IF unit = "minutes" THEN interval * 60 * 1000
    ELSE interval * 1000

enableSchedule(s) ==
    LET interval == OrDefault(parseInt(s.scheduleInterval), 5)
        milliseconds == Milliseconds(interval, s.scheduleUnit)
    IN  IF milliseconds < 1000
        THEN [showError(s, "Interval must be at least 1 second") EXCEPT !.scheduleEnabled = FALSE]
        ELSE LET s1 == scheduleBot(s, milliseconds)
             IN  IF s1.threw THEN s1
                 ELSE addLogEntry(s1, "Bot scheduled to run every", "info")

disableSchedule(s) == addLogEntry(clearScheduledTask(s), "Schedule disabled", "info")

handleScheduleToggle(s) ==
    IF s.scheduleEnabled THEN enableSchedule(s) ELSE disableSchedule(s)

updateScheduleIfEnabled(s) ==
    IF s.scheduleEnabled THEN enableSchedule(s) ELSE s

\* the callback logging only the ticks that started the bot
scheduleTick_logIfStarted(s) ==
    IF ~s.isBotRunning
    THEN addLogEntry(startBot(s), "Scheduled bot task executed", "info")
    ELSE s

\* the callback of the schedule timer
scheduleTick(s) ==
    LET s1 == IF ~s.isBotRunning THEN startBot(s) ELSE s
    IN  IF s1.threw THEN s1
        ELSE addLogEntry(s1, "Scheduled bot task executed", "info")

\* the visibilitychange listener
visibilityChange(s) ==
    IF windowLogViewer /\ s.autoRefreshCheckbox
    THEN IF s.hidden THEN stopAutoRefresh(s) ELSE startAutoRefresh(s)
    ELSE s

\* ------------------------------------- inputs of the methods called on their own
\* most words of a line
MaxWords == 2
\* most lines of a log text
MaxTextLines == 3

\* words with and without the keywords of getLogClass, in mixed case;
\* "token" contains "ok" and "WARNING" contains "warn"
Word_ERROR == <<"E", "R", "R", "O", "R">>
Word_Exception == <<"E", "x", "c", "e", "p", "t", "i", "o", "n">>
Word_failed == <<"f", "a", "i", "l", "e", "d">>
Word_WARNING == <<"W", "A", "R", "N", "I", "N", "G">>
Word_Warn == <<"W", "a", "r", "n">>
Word_Success == <<"S", "u", "c", "c", "e", "s", "s">>
Word_completed == <<"c", "o", "m", "p", "l", "e", "t", "e", "d">>
Word_OK == <<"O", "K">>
Word_Info == <<"I", "n", "f", "o">>
Word_DEBUG == <<"D", "E", "B", "U", "G">>
Word_token == <<"t", "o", "k", "e", "n">>
Word_x == <<"x">>
ClassifyWords == {Word_ERROR, Word_Exception, Word_failed, Word_WARNING, Word_Warn, Word_Success,
                  Word_completed, Word_OK, Word_Info, Word_DEBUG, Word_token, Word_x}
\* the lines given to getLogClass
ClassifyLines == {Join(ws, <<" ">>) : ws \in SeqsUpTo(ClassifyWords, MaxWords)}

\* timestamps of the four formats and other fragments of a line
Piece_Clock ==
    <<"1", "0", ":", "0", "0", ":", "0", "0">>
Piece_Clock2 ==
    <<"1", "0", ":", "0", "0", ":", "0", "5">>
Piece_Dated ==
    <<"2", "0", "2", "4", "-", "0", "1", "-", "0", "1", " ", "1", "0", ":", "0", "0",
      ":", "0", "0">>
Piece_Slash ==
    <<"0", "1", "/", "0", "2", "/", "2", "0", "2", "4", " ", "1", "0", ":", "0", "0",
      ":", "0", "0">>
Piece_Bracket ==
    <<"[", "2", "0", "2", "4", "-", "0", "1", "-", "0", "1", " ", "1", "0", ":", "0",
      "0", ":", "0", "5", "]">>
Piece_Retry ==
    <<"r", "e", "t", "r", "y">>
Piece_At ==
    <<"a", "t">>
Piece_Tag ==
    <<"<", "b", ">">>
Piece_Num ==
    <<"1", "2", ":">>
Piece_Amp ==
    <<"a", "&", "b">>
TimestampPieces == {Piece_Clock, Piece_Clock2, Piece_Dated, Piece_Slash, Piece_Bracket,
                    Piece_Retry, Piece_At, Piece_Tag, Piece_Num, Piece_Amp}
\* the lines given to formatLogContent
TimestampLines == {Join(ps, <<" ">>) : ps \in SeqsUpTo(TimestampPieces, MaxWords)}

\* lines of a log text: two dated lines, a keyword line, a blank line, an empty line
Line_ErrorFailed ==
    <<"2", "0", "2", "4", "-", "0", "1", "-", "0", "1", " ", "1", "0", ":", "0", "0",
      ":", "0", "0", " ", "E", "R", "R", "O", "R", " ", "F", "a", "i", "l", "e", "d",
      " ", "t", "o", " ", "c", "o", "n", "n", "e", "c", "t">>
Line_OkDone ==
    <<"2", "0", "2", "4", "-", "0", "1", "-", "0", "1", " ", "1", "0", ":", "0", "0",
      ":", "0", "5", " ", "O", "K", " ", "d", "o", "n", "e">>
Line_Warn ==
    <<"w", "a", "r", "n", ":", " ", "d", "i", "s", "k">>
RenderLines == {Line_ErrorFailed, Line_OkDone, Line_Warn, <<" ">>, <<>>}
\* the texts given to displayLogs
RenderTexts == {Join(ls, <<LF>>) : ls \in SeqsUpTo(RenderLines, MaxTextLines)}

\* ------------------------------------------------------------------- Init
\* the state after `new LogViewer()`; the page starts visible, with the
\* stop button disabled, nothing checked and a placeholder in the log area
InitObject ==
    /\ isLoading = FALSE
    /\ isBotRunning = FALSE
    /\ scheduledTask = 0
    /\ autoRefreshInterval = 0
    /\ timers = {}
    /\ logPending = 0
    /\ botPending = 0
    /\ startBotBtn = FALSE
    /\ stopBotBtn = TRUE
    /\ schedDisabled = <<FALSE, FALSE, FALSE>>
    /\ scheduleEnabled = FALSE
    /\ scheduleInterval \in IntervalValues
    /\ scheduleUnit \in Units
    /\ autoRefreshCheckbox = FALSE
    /\ hidden = FALSE
    /\ status = <<"", "">>
    /\ errorMessage = [shown |-> FALSE, text |-> ""]
    /\ toast = <<"", "">>
    /\ logContent = <<Placeholder("Loading logs")>>
    /\ totalLines = 0
    /\ scrollTop = 0
    /\ uncaught = FALSE
    /\ lastOp = "constructor"
    /\ pre = <<FALSE, FALSE>>
    /\ lastIn = NoInput

InitCommon == InitObject /\ probe = NoProbe

Init == variant = "network" /\ InitCommon

InitLocal == variant = "local" /\ InitCommon

\* ------------------------------------------- actions: user interface events
\* The user acts on a visible page only, and a disabled control dispatches
\* no event.

\* click on "Refresh Logs"
RefreshClick == ~hidden /\ Apply(loadLogs(Cur), "refreshClick")

\* click on "Clear"
ClearClick == ~hidden /\ Apply(clearLogs(Cur), "clearClick")

\* change of the auto-refresh checkbox
AutoRefreshChange ==
    /\ ~hidden
    /\ LET s == [Cur EXCEPT !.autoRefreshCheckbox = ~@]
       IN  Apply(IF s.autoRefreshCheckbox THEN startAutoRefresh(s) ELSE stopAutoRefresh(s),
                 "autoRefreshChange")

\* click on the start button
StartClick == ~hidden /\ ~startBotBtn /\ Apply(startBot(Cur), "startClick")

\* click on the stop button
StopClick == ~hidden /\ ~stopBotBtn /\ Apply(stopBot(Cur), "stopClick")

\* change of the schedule toggle
ScheduleToggleChange ==
    /\ ~hidden
    /\ ~schedDisabled[1]
    /\ Apply(handleScheduleToggle([Cur EXCEPT !.scheduleEnabled = ~@]), "scheduleToggleChange")

\* change of the interval field
IntervalChange ==
    /\ ~hidden
    /\ ~schedDisabled[2]
    /\ \E v \in IntervalValues \ {scheduleInterval} :
          Apply(updateScheduleIfEnabled([Cur EXCEPT !.scheduleInterval = v]), "intervalChange")

\* change of the unit selector
UnitChange ==
    /\ ~hidden
    /\ ~schedDisabled[3]
    /\ \E u \in Units \ {scheduleUnit} :
          Apply(updateScheduleIfEnabled([Cur EXCEPT !.scheduleUnit = u]), "unitChange")

\* the page is hidden or shown
VisibilityChange ==
    \E h \in BOOLEAN :
        /\ h # hidden
        /\ Apply(visibilityChange([Cur EXCEPT !.hidden = h]), "visibilityChange")

\* ------------------------------------------------------- actions: timers
\* a polling timer fires
PollTick ==
    \E t \in timers : t.kind = "poll" /\ Apply(loadLogs(Cur), "pollTick")

\* a schedule timer fires
ScheduleTick ==
    \E t \in timers : t.kind = "sched" /\ Apply(scheduleTick(Cur), "scheduleTick")

\* the user scrolls the log area
UserScroll ==
    /\ ~hidden
    /\ \E y \in 0..MaxScrollTop(logContent) :
          /\ y # scrollTop
          /\ Apply(setScrollTop(Cur, y), "scroll")

\* ------------------------------------------- actions: promise settlements
\* the request for /logs.txt settles
LogSettle ==
    /\ logPending > 0
    /\ \/ \E outcome \in {"reject", "status", "body"} :
             ApplyIn(loadLogs_resume(Cur, outcome, <<>>), "logSettle",
                     [outcome |-> outcome, body |-> "", text |-> <<>>])
       \/ \E logText \in LogTextsIn :
             ApplyIn(loadLogs_resume(Cur, "ok", logText), "logSettle",
                     [outcome |-> "ok", body |-> "", text |-> logText])

\* the request for /process-pdfs settles
BotSettle ==
    /\ botPending > 0
    /\ \/ ApplyIn(startBot_resume(Cur, "reject", "null"), "botSettle",
                  [outcome |-> "reject", body |-> "", text |-> <<>>])
       \/ \E outcome \in {"ok", "status"}, body \in BotBodies :
             ApplyIn(startBot_resume(Cur, outcome, body), "botSettle",
                     [outcome |-> outcome, body |-> body, text |-> <<>>])

\* ------------------------------------------------- actions: method calls
\* startBot() called on the object directly, whatever the state of the
\* start button
StartBotCall ==
    /\ variant = "network"
    /\ Apply(startBot(Cur), "startBotCall")

\* ------------------------------------------------------------------ Specs
\* the log display and its polling: refresh, clear, auto-refresh, visibility
NextPoll ==
    \/ RefreshClick
    \/ ClearClick
    \/ AutoRefreshChange
    \/ VisibilityChange
    \/ PollTick
    \/ LogSettle

\* the bot and its schedule; ClearClick empties the log area they write to
NextBot ==
    \/ ClearClick
    \/ StartClick
    \/ StopClick
    \/ ScheduleToggleChange
    \/ IntervalChange
    \/ UnitChange
    \/ ScheduleTick
    \/ BotSettle

Next == NextPoll \/ NextBot

\* the network-calling variant, every event.  Its state space is the product
\* of the two halves below, which share only the display (status, error
\* banner, log area); properties of one half are verified under that half.
Spec == Init /\ [][Next]_vars

\* the network-calling variant, the events of the log display
SpecPoll == Init /\ [][NextPoll]_vars

\* the network-calling variant, the events of the bot and its schedule
SpecBot == Init /\ [][NextBot]_vars

\* the bot and its schedule, with direct calls of startBot()
NextCall == NextBot \/ StartBotCall

SpecCall == Init /\ [][NextCall]_vars

\* ------------------------------------ actions: methods called on their own
\* getLogClass(line)
GetLogClassCall ==
    /\ probe.fn = ""
    /\ probe' = [probe EXCEPT !.fn = "getLogClass", !.class = getLogClass(probe.line)]
    /\ UNCHANGED <<progVars, lastOp, pre, lastIn>>

\* extractTimestamp(line) and formatLogContent(line), as displayLogs calls them
FormatLogContentCall ==
    /\ probe.fn = ""
    /\ probe' = [probe EXCEPT !.fn = "formatLogContent",
                              !.ts = extractTimestamp(probe.line),
                              !.body = formatLogContent(probe.line)]
    /\ UNCHANGED <<progVars, lastOp, pre, lastIn>>

\* displayLogs(logText) on the page as constructed
DisplayLogsCall ==
    /\ probe.fn = ""
    /\ probe' = [probe EXCEPT !.fn = "displayLogs",
                              !.nodes = displayLogs(Cur, probe.line).logContent]
    /\ UNCHANGED <<progVars, lastOp, pre, lastIn>>

\* the page as constructed, about to call one method on `line`
InitProbe(lines) ==
    /\ variant = "network"
    /\ InitObject
    /\ probe \in {[NoProbe EXCEPT !.line = line] : line \in lines}

InitClassify == InitProbe(ClassifyLines)
\* getLogClass on every line of ClassifyLines
SpecClassify == InitClassify /\ [][GetLogClassCall]_vars

InitTimestamp == InitProbe(TimestampLines)
\* extractTimestamp and formatLogContent on every line of TimestampLines
SpecTimestamp == InitTimestamp /\ [][FormatLogContentCall]_vars

InitRender == InitProbe(RenderTexts)
\* displayLogs on every text of RenderTexts
SpecRender == InitRender /\ [][DisplayLogsCall]_vars

\* startAutoRefresh() called on the object
StartAutoRefreshCall ==
    /\ variant = "network"
    /\ Apply(startAutoRefresh(Cur), "startAutoRefreshCall")

\* stopAutoRefresh() called on the object
StopAutoRefreshCall ==
    /\ variant = "network"
    /\ Apply(stopAutoRefresh(Cur), "stopAutoRefreshCall")

\* the log display, with direct calls of startAutoRefresh() and stopAutoRefresh()
NextRefresh == NextPoll \/ StartAutoRefreshCall \/ StopAutoRefreshCall

SpecRefresh == Init /\ [][NextRefresh]_vars

\* the log display with a user who scrolls it
NextScroll == NextPoll \/ UserScroll

\* the network-calling variant, the events of the log display and the scrolling
SpecScroll == Init /\ [][NextScroll]_vars

\* manual log fetches together with the bot and its schedule
NextStatus ==
    \/ RefreshClick
    \/ LogSettle
    \/ StartClick
    \/ StopClick
    \/ ScheduleToggleChange
    \/ ScheduleTick
    \/ BotSettle

\* the page as constructed, with the unit selector at "seconds": NextStatus
\* never changes the unit, which decides nothing but the period of the timer
InitStatus == Init /\ scheduleUnit = "seconds"

\* the network-calling variant, the events that decide the status indicator
SpecStatus == InitStatus /\ [][NextStatus]_vars

\* everything that writes the log area or the line counter: fetches, Clear,
\* and the entries of the bot and its schedule
NextCounter == NextStatus \/ ClearClick

SpecCounter == InitStatus /\ [][NextCounter]_vars

\* the local-simulation variant, the events of the bot and its schedule;
\* its startBot is synchronous, so no request settles
NextLocal ==
    \/ ClearClick
    \/ StartClick
    \/ StopClick
    \/ ScheduleToggleChange
    \/ IntervalChange
    \/ UnitChange
    \/ ScheduleTick

SpecLocal == InitLocal /\ [][NextLocal]_vars

\* ----------------------------------------------------------------- claims
\* the handlers that call loadLogs() and nothing else
LoadLogsCallers == {"refreshClick", "pollTick"}

\* the live schedule timers
SchedTimers == {t \in timers : t.kind = "sched"}

\* the live polling timers
PollTimers == {t \in timers : t.kind = "poll"}

\* the controls as they are when the bot is idle
ControlsIdle ==
    /\ ~startBotBtn
    /\ stopBotBtn
    /\ schedDisabled = <<FALSE, FALSE, FALSE>>

\* C1: at most one log fetch is outstanding at any time, and a loadLogs()
\* call made while a fetch is outstanding issues no request and changes
\* nothing (it is dropped, not queued).
C1_SingleFlightFetch ==
    [][ /\ logPending' <= 1
        /\ (isLoading /\ lastOp' \in LoadLogsCallers) => UNCHANGED progVars
        /\ (isLoading /\ lastOp' = "autoRefreshChange") => logPending' = logPending ]_vars

\* a refresh click or polling tick was dropped while a fetch was outstanding
C1_Witness ==
    /\ lastOp \in LoadLogsCallers
    /\ pre[1]
    /\ logPending = 1

\* C2: the loading flag is set exactly while a fetch is outstanding: every
\* settlement (success, rejection, non-2xx) clears it, and a loadLogs() call
\* made when no fetch is outstanding issues a new fetch.
C2_LoadingFlagCleared ==
    /\ [](isLoading <=> logPending > 0)
    /\ [][ /\ lastOp' = "logSettle" => ~isLoading'
           /\ (~isLoading /\ lastOp' \in LoadLogsCallers) => logPending' = 1 ]_vars

\* a fetch failed, the flag is clear and the error is shown
C2_Witness ==
    /\ lastOp = "logSettle"
    /\ errorMessage.shown
    /\ ~isLoading
    /\ logPending = 0

\* C3: at most one schedule timer is live, and it is the one scheduledTask
\* refers to.
C3_OneScheduleTimer ==
    /\ Cardinality(SchedTimers) <= 1
    /\ \A t \in SchedTimers : t.id = scheduledTask
    /\ scheduledTask # 0 => \E t \in SchedTimers : t.id = scheduledTask

\* an interval or unit change re-applied the schedule
C3_Witness ==
    /\ lastOp \in {"intervalChange", "unitChange"}
    /\ scheduleEnabled
    /\ Cardinality(SchedTimers) = 1
    /\ \E t \in SchedTimers :
          t.ms = Milliseconds(OrDefault(parseInt(scheduleInterval), 5), scheduleUnit)

\* the step calls enableSchedule(): the toggle was switched on, or the
\* interval or unit changed while the toggle is on
EnableScheduleCalled ==
    \/ lastOp' = "scheduleToggleChange" /\ ~scheduleEnabled
    \/ lastOp' \in {"intervalChange", "unitChange"} /\ scheduleEnabled

\* C4: enableSchedule with interval 0 and unit seconds is rejected (error
\* shown, toggle unchecked, no timer created); with interval 1 and unit
\* hours it installs a timer of period 3,600,000 ms.
C4_ZeroRejectedOneHourAccepted ==
    [][ /\ (EnableScheduleCalled /\ scheduleInterval' = <<"0">> /\ scheduleUnit' = "seconds")
            => (errorMessage'.shown /\ ~scheduleEnabled' /\ timers' = timers)
        /\ (EnableScheduleCalled /\ scheduleInterval' = <<"1">> /\ scheduleUnit' = "hours")
            => \E t \in timers' : t.id = scheduledTask' /\ t.kind = "sched" /\ t.ms = 3600000
      ]_vars

\* C5: at most one bot-trigger request is outstanding, and isBotRunning is
\* true whenever one is.
C5_BusyWhileRequestOutstanding ==
    /\ botPending <= 1
    /\ botPending > 0 => isBotRunning

\* C6: startBot() called while the bot is Running issues no request and
\* leaves the whole state unchanged.
C6_StartWhileRunningIsNoOp ==
    [][ (lastOp' = "startBotCall" /\ isBotRunning) => UNCHANGED progVars ]_vars

\* startBot() was called while the bot was running
C6_Witness ==
    /\ lastOp = "startBotCall"
    /\ pre[2]
    /\ isBotRunning
    /\ botPending = 1

\* C7: every settlement of a bot-trigger request leaves the bot Idle with
\* the controls restored, and raises no unhandled error.
C7_SettleRestoresIdle ==
    [][ lastOp' = "botSettle" => (~isBotRunning' /\ ControlsIdle' /\ ~uncaught') ]_vars

\* a bot-trigger request failed and the bot is idle again
C7_Witness ==
    /\ lastOp = "botSettle"
    /\ status = <<"Error", "error">>
    /\ ~isBotRunning
    /\ ControlsIdle

\* C8: stopBot() while Running ends Idle with the controls restored, no
\* schedule timer left and a 'Bot stopped' log entry.
C8_StopClearsScheduleAndLogs ==
    [][ (lastOp' = "stopClick" /\ isBotRunning) =>
            /\ ~isBotRunning'
            /\ ControlsIdle'
            /\ scheduledTask' = 0
            /\ SchedTimers' = {}
            /\ logContent' # <<>>
            /\ logContent'[1] = Entry("Bot stopped", "info") ]_vars

\* C9: hiding the page while auto-refresh is checked cancels the polling
\* timer, no polling tick runs while the page is hidden, and after the page
\* is shown again polling runs exactly if the checkbox is checked.
C9_HiddenStopsPolling ==
    [][ /\ (lastOp' = "visibilityChange" /\ hidden' /\ autoRefreshCheckbox)
            => (autoRefreshInterval' = 0 /\ PollTimers' = {})
        /\ lastOp' = "pollTick" => ~hidden
        /\ (lastOp' = "visibilityChange" /\ ~hidden')
            => (autoRefreshCheckbox' <=> PollTimers' # {}) ]_vars

\* C10: every tick of the schedule timer puts the 'Scheduled bot task
\* executed' entry on top of the log, whether or not it started the bot.
C10_EveryTickLogged ==
    [][ lastOp' = "scheduleTick" =>
            logContent' = <<Entry("Scheduled bot task executed", "info")>> \o logContent ]_vars

\* a tick found the bot running, started nothing and was logged
C10_Witness ==
    /\ lastOp = "scheduleTick"
    /\ pre[2]
    /\ logContent # <<>>
    /\ logContent[1] = Entry("Scheduled bot task executed", "info")

\* the number of requests a schedule step issues: one if it finds the bot Idle
RequestsWhenScheduled == IF isBotRunning THEN 0 ELSE 1

\* C11: the schedule issues a bot-trigger request exactly when the bot is
\* Idle: one on an accepted enableSchedule iff the bot is Idle then, one on
\* each tick iff the bot is Idle at that tick, none when the bot is Running.
C11_ScheduleTriggersIffIdle ==
    [][ /\ lastOp' = "scheduleTick" => botPending' = botPending + RequestsWhenScheduled
        /\ (EnableScheduleCalled /\ scheduleEnabled')
            => botPending' = botPending + RequestsWhenScheduled ]_vars

\* a tick found the bot Idle and issued a request
C11_Witness ==
    /\ lastOp = "scheduleTick"
    /\ ~pre[2]
    /\ isBotRunning
    /\ botPending >= 1

\* the bot-trigger request settled as a success
BotSuccessShown ==
    /\ status = <<"Completed", "success">>
    /\ toast[2] = "success"

\* the bot-trigger request settled as a failure: error status, error
\* notification, error log entry
BotFailureShown ==
    /\ status = <<"Error", "error">>
    /\ toast[2] = "error"
    /\ logContent # <<>>
    /\ logContent[1].cls = "log-line"
    /\ logContent[1].type = "error"

\* C12 as stated: a 2xx response is a success only if its JSON body has a
\* message; a 2xx response without one (unparsable, or JSON without a
\* message field) is a failure, and the bot is Idle afterwards.
C12_SuccessOnlyWithMessage ==
    [][ (lastOp' = "botSettle" /\ lastIn'.outcome = "ok") =>
            /\ lastIn'.body = "message" => BotSuccessShown'
            /\ lastIn'.body # "message" => (BotFailureShown' /\ ~isBotRunning') ]_vars

\* C12 amended: a 2xx response is a success whenever its body parses as a
\* JSON object, with or without a message field (without one the toast shows
\* the default text); a 2xx response whose body is unparsable or null is a
\* failure, and the bot is Idle afterwards.
C12_SuccessUnlessUnparsable ==
    [][ (lastOp' = "botSettle" /\ lastIn'.outcome = "ok") =>
            /\ lastIn'.body \in {"unparsable", "null"}
                => (BotFailureShown' /\ ~isBotRunning')
            /\ lastIn'.body = "message"
                => (BotSuccessShown' /\ toast'[1] = "result.message")
            /\ lastIn'.body \in {"empty", "error"}
                => (BotSuccessShown' /\ toast'[1] = "PDF processing started successfully")
      ]_vars

\* a 2xx response without a message field was shown as a success
C12_Witness ==
    /\ lastOp = "botSettle"
    /\ lastIn.outcome = "ok"
    /\ lastIn.body = "empty"
    /\ toast = <<"PDF processing started successfully", "success">>
    /\ ~isBotRunning

\* the log request settled as a failure: fetch rejected or non-2xx status
LogFetchFailed == lastOp = "logSettle" /\ lastIn.outcome \in {"reject", "status"}

\* C13: when a log fetch fails (fetch rejected or non-2xx status), loadLogs
\* shows the error message in the error area and sets the status indicator
\* to an error state; the rendered list and the line counter are unchanged.
C13_FailedFetchSetsErrorStatus ==
    [][ LogFetchFailed' =>
            /\ errorMessage'.shown
            /\ status'[2] = "error"
            /\ logContent' = logContent
            /\ totalLines' = totalLines ]_vars

\* the log request settled with a 2xx response whose body is blank
BlankLogFetched ==
    /\ lastOp = "logSettle"
    /\ lastIn.outcome = "ok"
    /\ IsBlank(lastIn.text)

\* C19: a successful fetch whose body is empty or whitespace-only renders
\* the single 'no logs' placeholder and no entry, sets the line counter to
\* 0, shows no error banner, sets no error status and clears the loading flag.
C19_BlankLogIsNotAnError ==
    [][ BlankLogFetched' =>
            /\ logContent' = <<Placeholder("No logs found or logs.txt is empty")>>
            /\ CountLogLines(logContent') = 0
            /\ totalLines' = 0
            /\ ~errorMessage'.shown
            /\ status'[2] # "error"
            /\ ~isLoading'
            /\ ~uncaught' ]_vars

\* a whitespace-only body was fetched and rendered as the placeholder
C19_Witness ==
    /\ BlankLogFetched
    /\ lastIn.text # <<>>
    /\ logContent = <<Placeholder("No logs found or logs.txt is empty")>>
    /\ totalLines = 0

\* the controls as startBot leaves them when it enters Running
ControlsRunning ==
    /\ startBotBtn
    /\ ~stopBotBtn
    /\ schedDisabled = <<TRUE, TRUE, TRUE>>

\* C20: in every reachable state of the network variant the controls agree
\* with the bot state: isBotRunning holds iff start is disabled, stop is
\* enabled and the three schedule controls are disabled; otherwise the
\* controls are as in the initial state.
C20_ControlsAgreeWithBotState ==
    /\ isBotRunning <=> ControlsRunning
    /\ ~isBotRunning <=> ControlsIdle

\* Stop was clicked while Running and left the controls Idle, although the
\* handler ended with an exception
C20_Witness ==
    /\ lastOp = "stopClick"
    /\ pre[2]
    /\ ~isBotRunning
    /\ ControlsIdle
    /\ uncaught

\* the log request settled with a 2xx response and a body
LogFetched == lastOp = "logSettle" /\ lastIn.outcome = "ok"

\* C14: in the network variant every successful log fetch sets the status
\* by fixed precedence: 'Running' if the bot is Running, otherwise
\* 'Scheduled' if a schedule timer is active, otherwise 'Connected'; a fetch
\* completing while the bot is Running never shows 'Connected' or 'Scheduled'.
C14_StatusPrecedence ==
    [][ LogFetched' =>
            /\ status'[1] = (IF isBotRunning THEN "Running"
                             ELSE IF SchedTimers # {} THEN "Scheduled"
                             ELSE "Connected")
            /\ isBotRunning => status'[1] \notin {"Connected", "Scheduled"} ]_vars

\* a fetch completed while the bot was Running and a schedule timer was live
C14_Witness ==
    /\ LogFetched
    /\ isBotRunning
    /\ SchedTimers # {}
    /\ status = <<"Running", "info">>

\* the log request settled with a 2xx response and a body that is not blank
NonBlankLogFetched == LogFetched /\ ~IsBlank(lastIn.text)

\* C15: scroll policy of displayLogs on non-blank input: a view that was at
\* the top is at offset 0 afterwards; a view that was not at the top is at
\* its old offset plus the height increase when the height grew, and at its
\* old offset (not snapped to the top) when the height did not grow.
C15_ScrollPolicy ==
    [][ NonBlankLogFetched' =>
            scrollTop' = (IF scrollTop = 0 THEN 0
                          ELSE IF scrollHeight(logContent') > scrollHeight(logContent)
                          THEN scrollTop + (scrollHeight(logContent') - scrollHeight(logContent))
                          ELSE scrollTop) ]_vars

\* C16: classification is a case-insensitive substring search in the
\* priority order error > warning > success > info > none: a line with
\* 'error', 'exception' or 'failed' is an error whatever else it contains,
\* and each lower category is returned only when no higher keyword occurs.
C16_ClassificationPriority ==
    probe.fn = "getLogClass" =>
        LET lower == toLowerCase(probe.line)
            hasError == includesAny(lower, KwError)
            hasWarning == includesAny(lower, KwWarning)
            hasSuccess == includesAny(lower, KwSuccess)
            hasInfo == includesAny(lower, KwInfo)
        IN  /\ hasError => probe.class = "error"
            /\ probe.class = "error" <=> hasError
            /\ probe.class = "warning" <=> (~hasError /\ hasWarning)
            /\ probe.class = "success" <=> (~hasError /\ ~hasWarning /\ hasSuccess)
            /\ probe.class = "info" <=> (~hasError /\ ~hasWarning /\ ~hasSuccess /\ hasInfo)
            /\ probe.class = "" <=> (~hasError /\ ~hasWarning /\ ~hasSuccess /\ ~hasInfo)

\* "WARNING ERROR", upper case and with a warning keyword first, is an error
C16_Witness ==
    /\ probe.fn = "getLogClass"
    /\ probe.line = Join(<<Word_WARNING, Word_ERROR>>, <<" ">>)
    /\ probe.class = "error"

\* C17: for every line from which a timestamp is extracted, the body left
\* after removing its first occurrence holds no match of the same pattern.
C17_NoResidualTimestamp ==
    (probe.fn = "formatLogContent" /\ probe.ts # <<>>) =>
        match(probe.body, patterns[MatchingPattern(probe.line)]) = 0

\* the non-blank lines of a text, last line first
SourceLinesNewestFirst(text) == Reverse(FilterNonBlank(SplitLines(text, <<>>)))

\* the text of the example: an ERROR line followed by an OK line
ExampleText == Join(<<Line_ErrorFailed, Line_OkDone, <<>>>>, <<LF>>)

\* C18: for a non-blank text displayLogs produces one entry per non-blank
\* source line, in reverse source order, numbered from 1, each with the
\* category and the timestamp of its own line; an ERROR line followed by an
\* OK line gives the categories [success, error].
C18_OneEntryPerLineNewestFirst ==
    (probe.fn = "displayLogs" /\ ~IsBlank(probe.line)) =>
        LET src == SourceLinesNewestFirst(probe.line)
        IN  /\ Len(probe.nodes) = Len(src)
            /\ \A i \in 1..Len(src) :
                  /\ probe.nodes[i].cls = "log-line"
                  /\ probe.nodes[i].index = i
                  /\ probe.nodes[i].type = getLogClass(src[i])
                  /\ probe.nodes[i].ts = extractTimestamp(src[i])
            /\ probe.line = ExampleText =>
                  [i \in 1..2 |-> probe.nodes[i].type] = <<"success", "error">>

\* the example was rendered: two entries, the OK line first, each timestamp
\* in its span and stripped from the body
C18_Witness ==
    /\ probe.fn = "displayLogs"
    /\ probe.line = ExampleText
    /\ Len(probe.nodes) = 2
    /\ probe.nodes[1].type = "success"
    /\ probe.nodes[1].ts = SubSeq(Line_OkDone, 1, 19)
    /\ probe.nodes[1].body = SubSeq(Line_OkDone, 21, Len(Line_OkDone))
    /\ probe.nodes[2].type = "error"
    /\ probe.nodes[2].ts = SubSeq(Line_ErrorFailed, 1, 19)

\* startAutoRefresh ran: called directly, or by the checkbox being checked
StartAutoRefreshRan ==
    \/ lastOp = "startAutoRefreshCall"
    \/ lastOp = "autoRefreshChange" /\ autoRefreshCheckbox

\* C21: after any sequence of startAutoRefresh() and stopAutoRefresh() calls
\* at most one polling timer is live, with a period of 5000 ms and held in
\* autoRefreshInterval; each startAutoRefresh() leaves exactly one timer and
\* makes one immediate loadLogs() call (one request unless a fetch is
\* outstanding); stopAutoRefresh() with no live timer changes nothing.
C21_OnePollingTimer ==
    [][ /\ Cardinality(PollTimers') <= 1
        /\ \A t \in PollTimers' : t.ms = 5000 /\ t.id = autoRefreshInterval'
        /\ StartAutoRefreshRan' =>
              /\ Cardinality(PollTimers') = 1
              /\ logPending' = logPending + (IF isLoading THEN 0 ELSE 1)
              /\ isLoading'
        /\ (lastOp' = "stopAutoRefreshCall" /\ PollTimers = {}) => UNCHANGED progVars
        /\ lastOp' = "stopAutoRefreshCall" => PollTimers' = {} ]_vars

\* startAutoRefresh() was called over a live timer while a fetch was
\* outstanding: one timer is live and no second request was issued
C21_Witness ==
    /\ lastOp = "startAutoRefreshCall"
    /\ pre[1]
    /\ autoRefreshCheckbox
    /\ Cardinality(PollTimers) = 1
    /\ logPending = 1

\* an interval or unit change made while the schedule was enabled was
\* rejected by validation, and the toggle reverted
ScheduleChangeRejected ==
    /\ lastOp' \in {"intervalChange", "unitChange"}
    /\ scheduleEnabled
    /\ ~scheduleEnabled'

\* C22: in every reachable state the schedule toggle is checked iff a
\* schedule timer is active; when an interval or unit change made while a
\* schedule is active is rejected and the toggle reverted, no schedule timer
\* remains live.
C22_ToggleAgreesWithTimer ==
    [][ /\ scheduleEnabled' <=> SchedTimers' # {}
        /\ ScheduleChangeRejected => (SchedTimers' = {} /\ scheduledTask' = 0) ]_vars

\* the patterns in the documented order: dated, slash-dated, bracketed, bare
C23_DocumentedOrder == <<DatedPattern, SlashPattern, BracketPattern, ClockPattern>>

\* the result of the reference extractor on the line given to the method
\* called on its own: the leftmost match of the first pattern of the
\* documented order that matches, <<>> for none
C23_ReferenceResult ==
    LET hits == {k \in 1..4 : match(probe.line, C23_DocumentedOrder[k]) # 0}
        k == CHOOSE i \in hits : \A j \in hits : i <= j
        at == match(probe.line, C23_DocumentedOrder[k])
    IN  IF hits = {} THEN <<>>
        ELSE SubSeq(probe.line, at, at + Len(C23_DocumentedOrder[k]) - 1)

\* C23: extractTimestamp, which tries dated, slash-dated, bare, bracketed,
\* returns for every line what the reference extractor returns that tries
\* dated, slash-dated, bracketed, bare.
C23_OrderIsImmaterial ==
    probe.fn = "formatLogContent" => probe.ts = C23_ReferenceResult

\* from a bracketed timestamp followed by a bare one both extractors take
\* the dated text inside the brackets
C23_Witness ==
    /\ probe.fn = "formatLogContent"
    /\ probe.line = Join(<<Piece_Bracket, Piece_Clock>>, <<" ">>)
    /\ probe.ts = SubSeq(Piece_Bracket, 2, 20)
    /\ match(probe.line, BracketPattern) = 1
    /\ match(probe.line, ClockPattern) # 0

\* C24: after every completed operation the total-line counter equals the
\* number of log-line entries in the display list; a placeholder counts as
\* no entry.
C24_CounterMatchesEntries == totalLines = CountLogLines(logContent)

\* an entry of the schedule was put on top of a fetched log line, and the
\* counter shows two
C24_Witness ==
    /\ Len(logContent) = 2
    /\ logContent[1] = Entry("Scheduled bot task executed", "info")
    /\ logContent[2].body # <<>>
    /\ totalLines = 2

\* startBot() ran from Idle: by the start button, or by an accepted
\* enableSchedule or a tick that found the bot Idle
StartBotRanFromIdle ==
    /\ ~isBotRunning
    /\ \/ lastOp' = "startClick"
       \/ lastOp' = "scheduleTick"
       \/ EnableScheduleCalled /\ scheduleEnabled'

\* C25: in the local variant startBot() invoked while Idle completes the
\* transition to Running: start and schedule controls disabled, the 'Bot
\* started successfully' entry, status 'Bot Running', auto-refresh started
\* when no polling timer was active; so an accepted enableSchedule reaches
\* its 'Bot scheduled to run every' entry and every tick reaches its
\* 'Scheduled bot task executed' entry.
C25_LocalStartCompletes ==
    [][ /\ StartBotRanFromIdle =>
              /\ isBotRunning'
              /\ ControlsRunning'
              /\ ~uncaught'
              /\ status' = <<"Bot Running", "success">>
              /\ \E i \in 1..Len(logContent') :
                    logContent'[i] = Entry("Bot started successfully", "success")
              /\ autoRefreshInterval = 0 => (autoRefreshCheckbox' /\ PollTimers' # {})
        /\ (EnableScheduleCalled /\ scheduleEnabled') =>
              (logContent' # <<>> /\ logContent'[1] = Entry("Bot scheduled to run every", "info"))
        /\ lastOp' = "scheduleTick" =>
              (logContent' # <<>> /\ logContent'[1] = Entry("Scheduled bot task executed", "info"))
      ]_vars

====
